---- MODULE Spec2Model ----
(***************************************************************************)
(* The `init` command of sidekick (cmd/init.go): one invocation of the     *)
(* process, from cobra's OnInitialize hook (initConfig) through            *)
(* initCmd.Run to process exit.  Remote calls (utils.Login, utils.RunStage,*)
(* utils.RunCommand), the prompt and viper.WriteConfig are the environment:*)
(* each returns a nondeterministic result.                                 *)
(*                                                                         *)
(* Text that the code only passes around (addresses, emails) is a TLA+     *)
(* string.  Text that the code takes apart (the captured output of the     *)
(* key-generation command) is a sequence of one-character strings.         *)
(***************************************************************************)
EXTENDS Integers, Sequences, FiniteSets, TLC

VARIABLES
    pc,          \* position of the process in initConfig / initCmd.Run
    flagServer,  \* viper.GetString("serverAddress") as bound to --server
    flagEmail,   \* viper.GetString("certEmail") as bound to --email
    server,      \* local `server` of Run
    certEmail,   \* local `certEmail` of Run
    viper,       \* viper's in-memory overrides (viper.Set)
    cfgFile,     \* content of ~/.config/sidekick/default.yaml
    cfgFile0,    \* its content before the invocation started
    fileOps,     \* every write the process made to that file, in order
    calls,       \* every Login / RunStage / RunCommand / WriteConfig call, in order
    output,      \* the value received from the channel RunCommand returned
    spin,        \* what each progress spinner shows
    printed,     \* diagnostics and confirmations written to the terminal
    outcome,     \* "Running", "Complete" or "Failed"
    exitStatus,  \* exit status of the process, NoExit while it runs
    spinErr,     \* whether the spinners' Start calls returned an error
    first        \* what an earlier invocation with the same flags did, if any

vars == <<pc, flagServer, flagEmail, server, certEmail, viper, cfgFile, cfgFile0,
          fileOps, calls, output, spin, printed, outcome, exitStatus, spinErr,
          first>>

NoExit == -1

(***************************************************************************)
(* Bounds and input sets                                                   *)
(***************************************************************************)

\* longest text following the chosen head of a captured output
MaxTail == 4

\* characters of a captured output besides those of the heads below
TailChars == {" ", "A", "B"}

PublicKeyPrefix == <<"P", "u", "b", "l", "i", "c", " ", "k", "e", "y">>

Marker == PublicKeyPrefix \o <<":">>

\* heads of a captured output: nothing, the prefix the code tests for, the
\* marker age-keygen prints, and the marker after other text
Heads == { <<>>, PublicKeyPrefix, Marker, <<"A", " ">> \o Marker }

RECURSIVE SeqsUpTo(_, _)
SeqsUpTo(S, n) ==
    IF n = 0 THEN { <<>> }
    ELSE LET shorter == SeqsUpTo(S, n - 1)
         IN  shorter \cup { Append(s, c) : s \in shorter, c \in S }

Outputs == { h \o t : h \in Heads, t \in SeqsUpTo(TailChars, MaxTail) }

\* values of --server / of the address prompt; "" is "not given"
Addresses == { "", "192.168.1.1", "999.1.1.1", "localhost" }

\* values of --email / of the email prompt; "" is "not given"
Emails == { "", "ops@example.com" }

Keys == { "serverAddress", "certEmail", "publicKey" }

EmptyFile == [ keys |-> {}, serverAddress |-> "", certEmail |-> "", publicKey |-> <<>> ]

\* a configuration file left by an earlier successful run
EarlierFile == [ keys |-> Keys, serverAddress |-> "10.0.0.7",
                 certEmail |-> "old@example.com", publicKey |-> <<"O">> ]

Spinners == { "rootLogin", "stage0", "sidekickLogin", "stage1", "stage2", "stage3" }

(***************************************************************************)
(* Pure functions                                                          *)
(***************************************************************************)

\* utils.IsValidIPAddress: a syntactically valid IPv4 address
IsValidIPAddress(s) == s \in { "192.168.1.1" }

\* strings.HasPrefix(s, prefix)
HasPrefix(s, prefix) ==
    /\ Len(s) >= Len(prefix)
    /\ SubSeq(s, 1, Len(prefix)) = prefix

\* strings.Split(s, " "): the substrings between the spaces, empty ones kept
RECURSIVE SplitFrom(_, _, _, _)
SplitFrom(s, i, cur, acc) ==
    IF i > Len(s) THEN Append(acc, cur)
    ELSE IF s[i] = " " THEN SplitFrom(s, i + 1, <<>>, Append(acc, cur))
    ELSE SplitFrom(s, i + 1, Append(cur, s[i]), acc)

Split(s) == SplitFrom(s, 1, <<>>, <<>>)

\* index (from 1) of the element `strings.Split(output, " ")[2:3]` selects
KeyTokenIndex == 3

\* the test guarding the extraction
HasKeyPrefix(out) == HasPrefix(out, PublicKeyPrefix)

\* the slice expression panics when the split has fewer than three elements
ExtractionPanics(out) == HasKeyPrefix(out) /\ Len(Split(out)) < KeyTokenIndex

ExtractedKey_FirstAfterPrefix(out) == Split(out)[KeyTokenIndex - 1]

\* the value passed to viper.Set("publicKey", ...)
ExtractedKey(out) == Split(out)[KeyTokenIndex]

(***************************************************************************)
(* Helpers for the state                                                   *)
(***************************************************************************)

Call(op, arg, sess, param, ok) ==
    [ op |-> op, arg |-> arg, sess |-> sess, param |-> param, ok |-> ok ]

\* the process ends: os.Exit, log.Fatalf, an unrecovered panic, or return
Exit(status, result) ==
    /\ pc' = "exited"
    /\ exitStatus' = status
    /\ outcome' = result

\* panic(err) in Run: the Go runtime prints the panic and exits with status 2
Panic == Exit(2, "Failed") /\ printed' = Append(printed, "panic")

\* log.Fatalf: prints and calls os.Exit(1)
Fatal == Exit(1, "Failed") /\ printed' = Append(printed, "fatal")

Goto(next) == pc' = next /\ UNCHANGED <<exitStatus, outcome>>

\* the record of an invocation, kept for comparing it with the next one
RunRecord(ran) ==
    [ ran |-> ran, server |-> server, certEmail |-> certEmail, calls |-> calls,
      output |-> output, cfgFile |-> cfgFile, outcome |-> outcome,
      exitStatus |-> exitStatus ]

NoEarlierRun ==
    [ ran |-> FALSE, server |-> "", certEmail |-> "", calls |-> <<>>,
      output |-> <<>>, cfgFile |-> EmptyFile, outcome |-> "Running",
      exitStatus |-> NoExit ]

(***************************************************************************)
(* Initial state: the process has parsed its flags, nothing else           *)
(***************************************************************************)

Init ==
    /\ pc = "initConfig"
    /\ flagServer \in Addresses
    /\ flagEmail \in Emails
    /\ server = ""
    /\ certEmail = ""
    /\ viper = EmptyFile
    /\ cfgFile0 \in { EmptyFile, EarlierFile }
    /\ cfgFile = cfgFile0
    /\ fileOps = <<>>
    /\ calls = <<>>
    /\ output = <<>>
    /\ spin = [ s \in Spinners |-> "idle" ]
    /\ printed = <<>>
    /\ outcome = "Running"
    /\ exitStatus = NoExit
    /\ spinErr = FALSE
    /\ first = NoEarlierRun

(***************************************************************************)
(* cobra.OnInitialize(initConfig): runs before Run                         *)
(***************************************************************************)

InitConfig_LoadsFile ==
    /\ pc = "initConfig"
    /\ \E r \in { "ok", "homeErr", "mkdirErr", "readErr" } :
          IF r = "ok"
          THEN /\ viper' = cfgFile
               /\ Goto("collectServer")
               /\ UNCHANGED printed
          ELSE /\ Fatal
               /\ UNCHANGED viper
    /\ UNCHANGED <<first, spinErr, flagServer, flagEmail, server, certEmail, cfgFile,
                   cfgFile0, fileOps, calls, output, spin>>

\* os.Create truncates default.yaml when it succeeds; a failure of
\* UserHomeDir, MkdirAll or Create ends the process with status 1
InitConfig ==
    /\ pc = "initConfig"
    /\ \E r \in { "ok", "homeErr", "mkdirErr", "createErr" } :
          IF r = "ok"
          THEN /\ cfgFile' = EmptyFile
               /\ fileOps' = Append(fileOps, "Create")
               /\ Goto("collectServer")
               /\ UNCHANGED printed
          ELSE /\ Fatal
               /\ UNCHANGED <<cfgFile, fileOps>>
    /\ UNCHANGED <<first, spinErr, flagServer, flagEmail, server, certEmail, viper, cfgFile0,
                   calls, output, spin>>

(***************************************************************************)
(* initCmd.Run                                                             *)
(***************************************************************************)

\* the address is validated only when it was typed at the prompt
CollectServer ==
    /\ pc = "collectServer"
    /\ certEmail' = flagEmail
    /\ IF flagServer = ""
       THEN \E typed \in Addresses :
               /\ server' = typed
               /\ IF ~IsValidIPAddress(typed)
                  THEN /\ printed' = Append(printed, "error: incorrect IP Address")
                       /\ Exit(0, "Failed")
                  ELSE /\ Goto("collectEmail")
                       /\ UNCHANGED printed
       ELSE /\ server' = flagServer
            /\ Goto("collectEmail")
            /\ UNCHANGED printed
    /\ UNCHANGED <<first, spinErr, flagServer, flagEmail, viper, cfgFile, cfgFile0, fileOps,
                   calls, output, spin>>

CollectEmail ==
    /\ pc = "collectEmail"
    /\ IF certEmail = ""
       THEN \E typed \in Emails :
               /\ certEmail' = typed
               /\ IF typed = ""
                  THEN /\ printed' = Append(printed, "error: email needed")
                       /\ Exit(0, "Failed")
                  ELSE /\ Goto("setInputs")
                       /\ UNCHANGED printed
       ELSE /\ Goto("setInputs")
            /\ UNCHANGED <<certEmail, printed>>
    /\ UNCHANGED <<first, spinErr, flagServer, flagEmail, server, viper, cfgFile, cfgFile0,
                   fileOps, calls, output, spin>>

SetInputs_AddressOnly ==
    /\ pc = "setInputs"
    /\ viper' = [ viper EXCEPT !.keys = @ \cup { "serverAddress" },
                               !.serverAddress = server ]
    /\ Goto("loginRoot")
    /\ UNCHANGED <<first, spinErr, flagServer, flagEmail, server, certEmail, cfgFile, cfgFile0,
                   fileOps, calls, output, spin, printed>>

\* viper.Set changes viper's memory only
SetInputs ==
    /\ pc = "setInputs"
    /\ viper' = [ viper EXCEPT !.keys = @ \cup { "serverAddress", "certEmail" },
                               !.serverAddress = server,
                               !.certEmail = certEmail ]
    /\ Goto("loginRoot")
    /\ UNCHANGED <<first, spinErr, flagServer, flagEmail, server, certEmail, cfgFile, cfgFile0,
                   fileOps, calls, output, spin, printed>>

LoginRoot_RetryOnce ==
    /\ pc = "loginRoot"
    /\ \E ok \in BOOLEAN :
          /\ calls' = Append(calls, Call("Login", "root", "-", server, ok))
          /\ IF ok
             THEN /\ Goto("startSpinners")
                  /\ UNCHANGED printed
             ELSE IF calls = <<>>
                  THEN /\ Goto("loginRoot")
                       /\ UNCHANGED printed
                  ELSE Fatal
    /\ UNCHANGED <<first, spinErr, flagServer, flagEmail, server, certEmail, viper, cfgFile,
                   cfgFile0, fileOps, output, spin>>

\* utils.Login(server, "root"); log.Fatalf on error
LoginRoot ==
    /\ pc = "loginRoot"
    /\ \E ok \in BOOLEAN :
          /\ calls' = Append(calls, Call("Login", "root", "-", server, ok))
          /\ IF ok
             THEN /\ Goto("startSpinners")
                  /\ UNCHANGED printed
             ELSE Fatal
    /\ UNCHANGED <<first, spinErr, flagServer, flagEmail, server, certEmail, viper, cfgFile,
                   cfgFile0, fileOps, output, spin>>

\* the six spinners are started together, after the root login returned;
\* the error each Start returns is assigned to `_`
StartSpinners ==
    /\ pc = "startSpinners"
    /\ spin' = [ s \in Spinners |-> IF s = "rootLogin" THEN "success" ELSE "spinning" ]
    /\ spinErr' \in BOOLEAN
    /\ Goto("stage0")
    /\ UNCHANGED <<first, flagServer, flagEmail, server, certEmail, viper, cfgFile,
                   cfgFile0, fileOps, calls, output, printed>>

StageStep_Swallow(stage, sess, param, spinner, next) ==
    \E ok \in BOOLEAN :
       /\ calls' = Append(calls, Call("RunStage", stage, sess, param, ok))
       /\ spin' = [ spin EXCEPT ![spinner] = IF ok THEN "success" ELSE "fail" ]
       /\ Goto(next)
       /\ UNCHANGED printed

StageStep_SpinnerConsulted(stage, sess, param, spinner, next) ==
    \E ok \in BOOLEAN :
       /\ calls' = Append(calls, Call("RunStage", stage, sess, param, ok))
       /\ IF ok /\ ~spinErr
          THEN /\ spin' = [ spin EXCEPT ![spinner] = "success" ]
               /\ Goto(next)
               /\ UNCHANGED printed
          ELSE /\ spin' = [ spin EXCEPT ![spinner] = "fail" ]
               /\ Panic

\* `if err := utils.RunStage(client, stage); err != nil { spinner.Fail; panic(err) }`
\* followed by spinner.Success
StageStep(stage, sess, param, spinner, next) ==
    \E ok \in BOOLEAN :
       /\ calls' = Append(calls, Call("RunStage", stage, sess, param, ok))
       /\ IF ok
          THEN /\ spin' = [ spin EXCEPT ![spinner] = "success" ]
               /\ Goto(next)
               /\ UNCHANGED printed
          ELSE /\ spin' = [ spin EXCEPT ![spinner] = "fail" ]
               /\ Panic

RunUsersetupStage ==
    /\ pc = "stage0"
    /\ StageStep("Usersetup", "root", "", "stage0", "loginSidekick")
    /\ UNCHANGED <<first, spinErr, flagServer, flagEmail, server, certEmail, viper, cfgFile,
                   cfgFile0, fileOps, output>>

LoginSidekick_Swallow ==
    /\ pc = "loginSidekick"
    /\ \E ok \in BOOLEAN :
          /\ calls' = Append(calls, Call("Login", "sidekick", "-", server, ok))
          /\ spin' = [ spin EXCEPT !["sidekickLogin"] = IF ok THEN "success" ELSE "fail" ]
          /\ Goto("stage1")
          /\ UNCHANGED printed
    /\ UNCHANGED <<first, spinErr, flagServer, flagEmail, server, certEmail, viper, cfgFile,
                   cfgFile0, fileOps, output>>

LoginSidekick ==
    /\ pc = "loginSidekick"
    /\ \E ok \in BOOLEAN :
          /\ calls' = Append(calls, Call("Login", "sidekick", "-", server, ok))
          /\ IF ok
             THEN /\ spin' = [ spin EXCEPT !["sidekickLogin"] = "success" ]
                  /\ Goto("stage1")
                  /\ UNCHANGED printed
             ELSE /\ spin' = [ spin EXCEPT !["sidekickLogin"] = "fail" ]
                  /\ Panic
    /\ UNCHANGED <<first, spinErr, flagServer, flagEmail, server, certEmail, viper, cfgFile,
                   cfgFile0, fileOps, output>>

RunSetupStage_SkipKeygen ==
    /\ pc = "stage1"
    /\ \E ok \in BOOLEAN :
          /\ calls' = Append(calls, Call("RunStage", "Setup", "sidekick", "", ok))
          /\ IF ok
             THEN /\ spin' = [ spin EXCEPT !["stage1"] = "success" ]
                  /\ Goto("stage2")
                  /\ UNCHANGED printed
             ELSE /\ spin' = [ spin EXCEPT !["stage1"] = "fail" ]
                  /\ Panic
    /\ UNCHANGED <<first, spinErr, flagServer, flagEmail, server, certEmail, viper, cfgFile,
                   cfgFile0, fileOps, output>>

\* stage1Spinner.Success is called only after the key-generation output
RunSetupStage ==
    /\ pc = "stage1"
    /\ \E ok \in BOOLEAN :
          /\ calls' = Append(calls, Call("RunStage", "Setup", "sidekick", "", ok))
          /\ IF ok
             THEN /\ Goto("keygen")
                  /\ UNCHANGED <<spin, printed>>
             ELSE /\ spin' = [ spin EXCEPT !["stage1"] = "fail" ]
                  /\ Panic
    /\ UNCHANGED <<first, spinErr, flagServer, flagEmail, server, certEmail, viper, cfgFile,
                   cfgFile0, fileOps, output>>

RunKeygenCommand_IgnoreError ==
    /\ pc = "keygen"
    /\ \E ok \in BOOLEAN :
          /\ calls' = Append(calls, Call("RunCommand", "age-keygen", "sidekick", "", ok))
          /\ IF ok
             THEN /\ Goto("receive")
                  /\ UNCHANGED <<spin, printed>>
             ELSE /\ spin' = [ spin EXCEPT !["stage1"] = "success" ]
                  /\ Goto("stage2")
                  /\ UNCHANGED printed
    /\ UNCHANGED <<first, spinErr, flagServer, flagEmail, server, certEmail, viper, cfgFile,
                   cfgFile0, fileOps, output>>

RunKeygenCommand ==
    /\ pc = "keygen"
    /\ \E ok \in BOOLEAN :
          /\ calls' = Append(calls, Call("RunCommand", "age-keygen", "sidekick", "", ok))
          /\ IF ok
             THEN /\ Goto("receive")
                  /\ UNCHANGED <<spin, printed>>
             ELSE /\ spin' = [ spin EXCEPT !["stage1"] = "fail" ]
                  /\ Panic
    /\ UNCHANGED <<first, spinErr, flagServer, flagEmail, server, certEmail, viper, cfgFile,
                   cfgFile0, fileOps, output>>

ReceiveOutput_LengthChecked ==
    /\ pc = "receive"
    /\ \E out \in Outputs :
          /\ output' = out
          /\ viper' = IF HasKeyPrefix(out) /\ ~ExtractionPanics(out)
                       THEN [ viper EXCEPT !.keys = @ \cup { "publicKey" },
                                           !.publicKey = ExtractedKey(out) ]
                       ELSE viper
          /\ spin' = [ spin EXCEPT !["stage1"] = "success" ]
          /\ Goto("stage2")
          /\ UNCHANGED printed
    /\ UNCHANGED <<first, spinErr, flagServer, flagEmail, server, certEmail, cfgFile, cfgFile0,
                   fileOps, calls>>

\* `select { case output := <-ch: ... }` and stage1Spinner.Success
ReceiveOutput ==
    /\ pc = "receive"
    /\ \E out \in Outputs :
          /\ output' = out
          /\ IF ExtractionPanics(out)
             THEN /\ Panic
                  /\ UNCHANGED <<viper, spin>>
             ELSE /\ viper' = IF HasKeyPrefix(out)
                              THEN [ viper EXCEPT !.keys = @ \cup { "publicKey" },
                                                  !.publicKey = ExtractedKey(out) ]
                              ELSE viper
                  /\ spin' = [ spin EXCEPT !["stage1"] = "success" ]
                  /\ Goto("stage2")
                  /\ UNCHANGED printed
    /\ UNCHANGED <<first, spinErr, flagServer, flagEmail, server, certEmail, cfgFile, cfgFile0,
                   fileOps, calls>>

RunDockerStage_Timeout ==
    /\ pc = "stage2"
    /\ \/ StageStep("Docker", "sidekick", "", "stage2", "stage3")
       \/ /\ Fatal
          /\ UNCHANGED <<calls, spin>>
    /\ UNCHANGED <<first, spinErr, flagServer, flagEmail, server, certEmail, viper, cfgFile,
                   cfgFile0, fileOps, output>>

RunDockerStage_OnRootSession ==
    /\ pc = "stage2"
    /\ StageStep("Docker", "root", "", "stage2", "stage3")
    /\ UNCHANGED <<first, spinErr, flagServer, flagEmail, server, certEmail, viper, cfgFile,
                   cfgFile0, fileOps, output>>

RunDockerStage ==
    /\ pc = "stage2"
    /\ StageStep("Docker", "sidekick", "", "stage2", "stage3")
    /\ UNCHANGED <<first, spinErr, flagServer, flagEmail, server, certEmail, viper, cfgFile,
                   cfgFile0, fileOps, output>>

RunTraefikStage_FlagEmail ==
    /\ pc = "stage3"
    /\ StageStep("Traefik", "sidekick", flagEmail, "stage3", "writeConfig")
    /\ UNCHANGED <<first, spinErr, flagServer, flagEmail, server, certEmail, viper, cfgFile,
                   cfgFile0, fileOps, output>>

\* utils.GetTraefikStage(certEmail) builds the stage from the email
RunTraefikStage ==
    /\ pc = "stage3"
    /\ StageStep("Traefik", "sidekick", certEmail, "stage3", "writeConfig")
    /\ UNCHANGED <<first, spinErr, flagServer, flagEmail, server, certEmail, viper, cfgFile,
                   cfgFile0, fileOps, output>>

WriteConfig_ErrorIgnored ==
    /\ pc = "writeConfig"
    /\ \E ok \in BOOLEAN :
          /\ calls' = Append(calls, Call("WriteConfig", "", "-", "", ok))
          /\ IF ok
             THEN /\ cfgFile' = viper
                  /\ fileOps' = Append(fileOps, "WriteConfig")
             ELSE UNCHANGED <<cfgFile, fileOps>>
          /\ Goto("finish")
          /\ UNCHANGED printed
    /\ UNCHANGED <<first, spinErr, flagServer, flagEmail, server, certEmail, viper, cfgFile0,
                   output, spin>>

\* viper.WriteConfig writes every key viper holds to default.yaml
WriteConfig ==
    /\ pc = "writeConfig"
    /\ \E ok \in BOOLEAN :
          /\ calls' = Append(calls, Call("WriteConfig", "", "-", "", ok))
          /\ IF ok
             THEN /\ cfgFile' = viper
                  /\ fileOps' = Append(fileOps, "WriteConfig")
                  /\ Goto("finish")
                  /\ UNCHANGED printed
             ELSE /\ Panic
                  /\ UNCHANGED <<cfgFile, fileOps>>
    /\ UNCHANGED <<first, spinErr, flagServer, flagEmail, server, certEmail, viper, cfgFile0,
                   output, spin>>

\* multi.Stop, the confirmation, and the return from Run: exit status 0
Finish ==
    /\ pc = "finish"
    /\ printed' = Append(printed, "Your VPS is ready!")
    /\ Exit(0, "Complete")
    /\ UNCHANGED <<first, spinErr, flagServer, flagEmail, server, certEmail, viper, cfgFile,
                   cfgFile0, fileOps, calls, output, spin>>

Next ==
    \/ InitConfig
    \/ CollectServer
    \/ CollectEmail
    \/ SetInputs
    \/ LoginRoot
    \/ StartSpinners
    \/ RunUsersetupStage
    \/ LoginSidekick
    \/ RunSetupStage
    \/ RunKeygenCommand
    \/ ReceiveOutput
    \/ RunDockerStage
    \/ RunTraefikStage
    \/ WriteConfig
    \/ Finish

Spec == Init /\ [][Next]_vars

(***************************************************************************)
(* Vocabulary of the properties                                            *)
(***************************************************************************)

CallIdx == 1..Len(calls)

IsStage(c, stage) == c.op = "RunStage" /\ c.arg = stage

IsLogin(c, user) == c.op = "Login" /\ c.arg = user

IsKeygen(c) == c.op = "RunCommand"

\* some call before the i-th is a successful call satisfying P
OkBefore(i, P(_)) == \E j \in 1..(i - 1) : P(calls[j]) /\ calls[j].ok

IsUsersetup(c) == IsStage(c, "Usersetup") /\ c.sess = "root"

IsSetup(c) == IsStage(c, "Setup")

IsDocker(c) == IsStage(c, "Docker")

IsTraefik(c) == IsStage(c, "Traefik")

IsSidekickLogin(c) == IsLogin(c, "sidekick")

\* the value of the output channel has been received
OutputReceived ==
    /\ \E i \in CallIdx : IsKeygen(calls[i]) /\ calls[i].ok
    /\ pc # "receive"

\* the base-setup step is reported as done (stage1Spinner.Success)
BaseConfigured == spin["stage1"] = "success"

ContainsMarker(out) ==
    \E i \in 1..(Len(out) - Len(Marker) + 1) :
       SubSeq(out, i, i + Len(Marker) - 1) = Marker

MarkerThenSpace == Marker \o <<" ">>

\* the longest space-free text at the start of s
FirstToken(s) ==
    LET n == CHOOSE k \in 0..Len(s) :
                 /\ \A i \in 1..k : s[i] # " "
                 /\ (k = Len(s) \/ s[k + 1] = " ")
    IN  SubSeq(s, 1, n)

\* the token that follows the marker and one space
TokenAfterMarker(out) == FirstToken(SubSeq(out, Len(MarkerThenSpace) + 1, Len(out)))

(***************************************************************************)
(* C1: once a login, a stage, the key-generation command or the persist    *)
(* call fails, it is the last call of the run and the run has ended in     *)
(* Failed: nothing is called after the first failure.                      *)
(***************************************************************************)
C1_HaltAtFirstFailure ==
    \A i \in CallIdx :
       ~calls[i].ok => /\ i = Len(calls)
                       /\ pc = "exited"
                       /\ outcome = "Failed"
                       /\ exitStatus # 0

C1_Witness ==
    /\ Len(calls) = 6
    /\ IsDocker(calls[6])
    /\ ~calls[6].ok
    /\ pc = "exited"

(***************************************************************************)
(* C2: the container-runtime stage is started only after the base-setup    *)
(* stage and the key-generation command succeeded and the base step was    *)
(* reported done; the base step is reported done only after the            *)
(* account-creation stage and the login as sidekick succeeded; the         *)
(* reverse-proxy stage is started only after the container-runtime stage   *)
(* succeeded.                                                              *)
(***************************************************************************)
C2_StateOrder ==
    /\ \A i \in CallIdx :
          IsDocker(calls[i]) =>
             /\ OkBefore(i, IsSetup)
             /\ OkBefore(i, IsKeygen)
             /\ \E j \in 1..(i - 1), k \in 1..(i - 1) :
                   j < k /\ IsSetup(calls[j]) /\ IsKeygen(calls[k])
             /\ BaseConfigured
    /\ BaseConfigured =>
          \E j \in CallIdx, k \in CallIdx :
             /\ j < k
             /\ IsUsersetup(calls[j]) /\ calls[j].ok
             /\ IsSidekickLogin(calls[k]) /\ calls[k].ok
    /\ \A i \in CallIdx : IsTraefik(calls[i]) => OkBefore(i, IsDocker)

C2_Witness ==
    /\ \E i \in CallIdx : IsTraefik(calls[i])
    /\ BaseConfigured

(***************************************************************************)
(* C3: the login as sidekick happens only after the account-creation stage *)
(* succeeded on the root session, and when that login fails no stage and   *)
(* no command is run afterwards.                                           *)
(***************************************************************************)
C3_OperationalLoginOrder ==
    \A i \in CallIdx :
       IsSidekickLogin(calls[i]) =>
          /\ OkBefore(i, IsUsersetup)
          /\ ~calls[i].ok =>
                /\ \A k \in CallIdx : k > i => calls[k].op \notin { "RunStage", "RunCommand" }
                /\ \A k \in CallIdx :
                      ~( IsSetup(calls[k]) \/ IsKeygen(calls[k])
                         \/ IsDocker(calls[k]) \/ IsTraefik(calls[k]) )

C3_Witness ==
    /\ pc = "exited"
    /\ \E i \in CallIdx : IsSidekickLogin(calls[i]) /\ ~calls[i].ok

(***************************************************************************)
(* C4: a run that fails for any reason exits with a non-zero status, and   *)
(* the exit status is zero only when the pipeline and the persist call     *)
(* completed.                                                              *)
(***************************************************************************)
C4_ExitStatusContract ==
    pc = "exited" =>
       /\ outcome = "Failed" => exitStatus # 0
       /\ exitStatus = 0 =>
             \E i \in CallIdx : calls[i].op = "WriteConfig" /\ calls[i].ok

(***************************************************************************)
(* C5: no login is attempted with an address that is not a valid IPv4      *)
(* address or with an empty certificate email, whether the value came from *)
(* the flag or from the prompt.                                            *)
(***************************************************************************)
C5_ValidatedBeforeLogin ==
    \A i \in CallIdx :
       calls[i].op = "Login" =>
          /\ IsValidIPAddress(calls[i].param)
          /\ certEmail # ""

(***************************************************************************)
(* C6: when the received key-generation output does not contain the marker *)
(* the run fails: the base step is not reported done, the                  *)
(* container-runtime stage is not started and the run is not Complete.     *)
(***************************************************************************)
C6_MissingMarkerIsFatal ==
    (OutputReceived /\ ~ContainsMarker(output)) =>
       /\ ~BaseConfigured
       /\ \A i \in CallIdx : ~IsDocker(calls[i])
       /\ outcome # "Complete"
       /\ pc \in { "exited" } /\ outcome = "Failed"

(***************************************************************************)
(* C7: when a run has failed, the configuration file holds what it held    *)
(* before the invocation started.                                          *)
(***************************************************************************)
C7_FailedRunLeavesFile ==
    (pc = "exited" /\ outcome = "Failed") => cfgFile = cfgFile0

(***************************************************************************)
(* C8: the only write to the configuration file is one WriteConfig, made   *)
(* after the reverse-proxy stage succeeded.                                *)
(***************************************************************************)
C8_SingleWriteAtEnd ==
    /\ Len(fileOps) <= 1
    /\ \A i \in 1..Len(fileOps) :
          /\ fileOps[i] = "WriteConfig"
          /\ \E j \in CallIdx : IsTraefik(calls[j]) /\ calls[j].ok
    /\ cfgFile # cfgFile0 => fileOps = <<"WriteConfig">>

(***************************************************************************)
(* C9: when the received output is the marker "Public key:", one space, a  *)
(* token T and possibly a space and more text, the value set under         *)
(* publicKey is T.                                                         *)
(***************************************************************************)
C9_ExtractedTokenFollowsMarker ==
    (OutputReceived /\ HasPrefix(output, MarkerThenSpace)) =>
       /\ "publicKey" \in viper.keys
       /\ viper.publicKey = TokenAfterMarker(output)
       /\ outcome = "Complete" => cfgFile.publicKey = TokenAfterMarker(output)

C9_Witness ==
    /\ outcome = "Complete"
    /\ output = MarkerThenSpace \o <<"A", " ", "B">>
    /\ cfgFile.publicKey = <<"A">>

(***************************************************************************)
(* C10 as stated: a finished run in which every call succeeded and whose   *)
(* key-generation output contained the marker is Complete with exit status *)
(* zero, and the file holds the three keys, all non-empty.                 *)
(***************************************************************************)
AllCallsSucceeded ==
    /\ pc = "exited"
    /\ OutputReceived
    /\ \A i \in CallIdx : calls[i].ok

CompleteAndStored ==
    /\ outcome = "Complete"
    /\ exitStatus = 0
    /\ cfgFile.keys = Keys
    /\ cfgFile.serverAddress # ""
    /\ cfgFile.certEmail # ""
    /\ cfgFile.publicKey # <<>>

StartsWithMarkerAndToken(out) ==
    /\ HasPrefix(out, MarkerThenSpace)
    /\ TokenAfterMarker(out) # <<>>

ReadyPrinted == \E i \in 1..Len(printed) : printed[i] = "Your VPS is ready!"

PersistCalled(ok) == \E i \in CallIdx : calls[i].op = "WriteConfig" /\ calls[i].ok = ok

C11_PersistFailureIsFatal ==
    /\ PersistCalled(FALSE) =>
          /\ pc = "exited"
          /\ outcome = "Failed"
          /\ exitStatus # 0
          /\ ~ReadyPrinted
    /\ (ReadyPrinted \/ outcome = "Complete") => (PersistCalled(TRUE) /\ ~PersistCalled(FALSE))

C11_Witness ==
    /\ PersistCalled(FALSE)
    /\ \E i \in CallIdx : IsTraefik(calls[i]) /\ calls[i].ok
    /\ pc = "exited"

(***************************************************************************)
(* C13: each identity is logged in at most once; the account-creation      *)
(* stage is the only operation on the root session and precedes the login  *)
(* as sidekick; every other stage and the key-generation command run on    *)
(* the sidekick session.                                                   *)
(***************************************************************************)
C13_SessionUse ==
    /\ \A i \in CallIdx, j \in CallIdx :
          (calls[i].op = "Login" /\ calls[j].op = "Login" /\ calls[i].arg = calls[j].arg)
             => i = j
    /\ \A i \in CallIdx :
          calls[i].op \in { "RunStage", "RunCommand" } =>
             IF IsStage(calls[i], "Usersetup")
             THEN /\ calls[i].sess = "root"
                  /\ \A k \in 1..i : ~IsSidekickLogin(calls[k])
                  /\ OkBefore(i, LAMBDA c : IsLogin(c, "root"))
             ELSE /\ calls[i].sess = "sidekick"
                  /\ OkBefore(i, IsSidekickLogin)

C13_Witness ==
    /\ outcome = "Complete"
    /\ \E i \in CallIdx : IsUsersetup(calls[i])
    /\ \E i \in CallIdx : IsTraefik(calls[i]) /\ calls[i].sess = "sidekick"

(***************************************************************************)
(* C14: the key-generation command is the only captured command: it is     *)
(* issued at most once, on the sidekick session, directly after the        *)
(* base-setup stage succeeded; a run that starts the container-runtime     *)
(* stage has issued it exactly once before, with success; when it fails    *)
(* the run is Failed and the container-runtime stage is not started.       *)
(***************************************************************************)
KeygenCalls == { i \in CallIdx : IsKeygen(calls[i]) }

C14_KeygenOnce ==
    /\ Cardinality(KeygenCalls) <= 1
    /\ \A i \in KeygenCalls :
          /\ calls[i].sess = "sidekick"
          /\ calls[i].arg = "age-keygen"
          /\ i > 1 /\ IsSetup(calls[i - 1]) /\ calls[i - 1].ok
          /\ ~calls[i].ok =>
                /\ pc = "exited" /\ outcome = "Failed"
                /\ \A k \in CallIdx : ~IsDocker(calls[k])
    /\ \A k \in CallIdx :
          IsDocker(calls[k]) =>
             /\ k > 1 /\ IsKeygen(calls[k - 1]) /\ calls[k - 1].ok
             /\ Cardinality(KeygenCalls) = 1
    /\ pc \in { "receive", "stage2", "stage3", "writeConfig", "finish" } =>
          Cardinality(KeygenCalls) = 1

C14_Witness ==
    /\ pc = "exited"
    /\ \E i \in KeygenCalls : ~calls[i].ok

(***************************************************************************)
(* C15: no login, stage, command or persist call is made twice in a run,   *)
(* and after any of them returned an error the process has exited with a   *)
(* failure status without making another call.                             *)
(***************************************************************************)
C15_NoRetry ==
    /\ \A i \in CallIdx, j \in CallIdx :
          (calls[i].op = calls[j].op /\ calls[i].arg = calls[j].arg) => i = j
    /\ \A i \in CallIdx :
          ~calls[i].ok => /\ \A k \in CallIdx : k <= i
                          /\ exitStatus \in { 1, 2 }

C15_Witness ==
    /\ Len(calls) = 1
    /\ ~calls[1].ok
    /\ pc = "exited"

(***************************************************************************)
(* C18: both logins are given the address that is written under            *)
(* serverAddress, the reverse-proxy stage is built from the email that is  *)
(* written under certEmail, and both equal the collected values.           *)
(***************************************************************************)
InputsCollected == pc \notin { "initConfig", "collectServer", "collectEmail", "setInputs" }

C18_PersistedEqualsUsed ==
    /\ \A i \in CallIdx :
          /\ calls[i].op = "Login" => calls[i].param = server
          /\ IsTraefik(calls[i]) => calls[i].param = certEmail
    /\ (InputsCollected /\ calls # <<>>) =>
          /\ viper.serverAddress = server
          /\ viper.certEmail = certEmail
          /\ flagServer # "" => server = flagServer
          /\ flagEmail # "" => certEmail = flagEmail
    /\ PersistCalled(TRUE) =>
          /\ { "serverAddress", "certEmail" } \subseteq cfgFile.keys
          /\ \A i \in CallIdx :
                /\ calls[i].op = "Login" => calls[i].param = cfgFile.serverAddress
                /\ IsTraefik(calls[i]) => calls[i].param = cfgFile.certEmail

C18_Witness ==
    /\ PersistCalled(TRUE)
    /\ flagEmail = ""
    /\ cfgFile.certEmail = "ops@example.com"
    /\ \E i \in CallIdx : IsTraefik(calls[i]) /\ calls[i].param = "ops@example.com"

(***************************************************************************)
(* C19: when the received output begins with "Public key" and has fewer    *)
(* than three space-separated tokens, the run is Failed at the extraction: *)
(* no container-runtime stage, no reverse-proxy stage and no persist call. *)
(***************************************************************************)
SpaceCount(out) == Cardinality({ i \in 1..Len(out) : out[i] = " " })

C19_ShortOutputPanics ==
    (OutputReceived /\ HasPrefix(output, PublicKeyPrefix) /\ SpaceCount(output) + 1 < 3) =>
       /\ pc = "exited"
       /\ outcome = "Failed"
       /\ exitStatus = 2
       /\ \A i \in CallIdx : ~IsDocker(calls[i]) /\ ~IsTraefik(calls[i])
                             /\ calls[i].op # "WriteConfig"
       /\ \A i \in 1..Len(fileOps) : fileOps[i] # "WriteConfig"
       /\ "publicKey" \notin viper.keys

C19_Witness ==
    /\ OutputReceived
    /\ output = PublicKeyPrefix \o <<":", "A">>
    /\ outcome = "Failed"

(***************************************************************************)
(* Every blocking call returns: the step that handles its result is taken  *)
(* whenever the process waits for it.                                      *)
(***************************************************************************)
SpecLive == Spec /\ WF_vars(Next)

\* positions at which the process waits for a login, a stage, the command,
\* the channel or the persist call
Blocking ==
    { "loginRoot", "stage0", "loginSidekick", "stage1", "keygen", "receive",
      "stage2", "stage3", "writeConfig" }

\* the operation awaited at each of them
Awaited(p) ==
    CASE p = "loginRoot"     -> <<"Login", "root">>
      [] p = "stage0"        -> <<"RunStage", "Usersetup">>
      [] p = "loginSidekick" -> <<"Login", "sidekick">>
      [] p = "stage1"        -> <<"RunStage", "Setup">>
      [] p = "keygen"        -> <<"RunCommand", "age-keygen">>
      [] p = "stage2"        -> <<"RunStage", "Docker">>
      [] p = "stage3"        -> <<"RunStage", "Traefik">>
      [] p = "writeConfig"   -> <<"WriteConfig", "">>

\* this step is the return of the operation awaited at pc
ReturnStep ==
    IF pc = "receive"
    THEN calls' = calls /\ pc' \in { "stage2", "exited" }
    ELSE /\ Len(calls') = Len(calls) + 1
         /\ <<calls'[Len(calls')].op, calls'[Len(calls')].arg>> = Awaited(pc)

(***************************************************************************)
(* C17: when every blocking operation returns, every run ends Complete or  *)
(* Failed; and a run that waits for an operation leaves that position only *)
(* by the operation's return, so it waits forever if the operation never   *)
(* returns.                                                                *)
(***************************************************************************)
C17_TerminatesUnlessBlocked ==
    /\ <>(pc = "exited" /\ outcome \in { "Complete", "Failed" })
    /\ [][ (pc \in Blocking /\ pc' # pc) => ReturnStep ]_vars

C17_Witness ==
    /\ pc = "exited"
    /\ outcome = "Complete"
    /\ Len(calls) = 8

(***************************************************************************)
(* Two invocations with the same flags, one after the other.  The second   *)
(* is given what the first was given: the same typed values, the same      *)
(* result of every call, the same captured output.  What the spinners'     *)
(* Start calls return is free in both, and so is what the configuration    *)
(* file holds when the second starts.                                      *)
(***************************************************************************)

\* longest tail of a captured output in the two-invocation specification
MaxScriptTail == 2

ScriptedOutputs == { h \o t : h \in Heads, t \in SeqsUpTo(TailChars, MaxScriptTail) }

\* initConfig ended the invocation r
InitFailed(r) == r.calls = <<>> /\ r.exitStatus = 1

\* what the prompt and the channel deliver: scripted in the first
\* invocation, the same again in the second
ScriptedInputs ==
    IF ~first.ran
    THEN IF pc = "receive" THEN output' \in ScriptedOutputs ELSE TRUE
    ELSE CASE pc = "collectServer" -> server' = first.server
           [] pc = "collectEmail"  -> certEmail' = first.certEmail
           [] pc = "receive"       -> output' = first.output
           [] OTHER                -> TRUE

\* what initConfig's system calls and the logins, stages, command and
\* persist call return in the second invocation: the same again
ReplayedResults ==
    first.ran =>
       /\ pc = "initConfig" => ((pc' = "exited") <=> InitFailed(first))
       /\ (Len(calls') > Len(calls) /\ Len(calls') <= Len(first.calls)) =>
             calls'[Len(calls')].ok = first.calls[Len(calls')].ok

\* the operator runs the same command line again: a new process
Restart ==
    /\ pc = "exited"
    /\ ~first.ran
    /\ first' = RunRecord(TRUE)
    /\ pc' = "initConfig"
    /\ cfgFile' \in { cfgFile, EarlierFile }
    /\ cfgFile0' = cfgFile'
    /\ server' = ""
    /\ certEmail' = ""
    /\ viper' = EmptyFile
    /\ fileOps' = <<>>
    /\ calls' = <<>>
    /\ output' = <<>>
    /\ spin' = [ s \in Spinners |-> "idle" ]
    /\ printed' = <<>>
    /\ outcome' = "Running"
    /\ exitStatus' = NoExit
    /\ spinErr' = FALSE
    /\ UNCHANGED <<flagServer, flagEmail>>

NextTwice ==
    \/ ScriptedInputs /\ Next /\ ReplayedResults
    \/ Restart

SpecTwice == Init /\ [][NextTwice]_vars

SecondRunEnded == first.ran /\ pc = "exited"

(***************************************************************************)
(* C12: when the first invocation was Complete, the second one, given the  *)
(* same inputs and the same successful responses, is Complete and persists *)
(* the same serverAddress, certEmail and publicKey.                        *)
(***************************************************************************)
C12_HappyPathIdempotent ==
    (SecondRunEnded /\ first.outcome = "Complete") =>
       /\ outcome = "Complete"
       /\ cfgFile.keys = first.cfgFile.keys
       /\ cfgFile.serverAddress = first.cfgFile.serverAddress
       /\ cfgFile.certEmail = first.cfgFile.certEmail
       /\ cfgFile.publicKey = first.cfgFile.publicKey

C12_Witness ==
    /\ SecondRunEnded
    /\ first.outcome = "Complete"
    /\ cfgFile0 = EarlierFile
    /\ cfgFile.publicKey = <<"A">>
    /\ first.cfgFile.publicKey = <<"A">>

(***************************************************************************)
(* C16: two invocations with the same inputs and the same results of       *)
(* logins, stages, command and persist call make the same calls in the     *)
(* same order, persist the same values and exit with the same status,      *)
(* whatever the spinners' Start calls return; and a call is made only      *)
(* when no earlier remote operation is still executing.                    *)
(***************************************************************************)
C16_SpinnersDoNotDecide ==
    /\ [](SecondRunEnded =>
            /\ calls = first.calls
            /\ exitStatus = first.exitStatus
            /\ outcome = first.outcome
            /\ PersistCalled(TRUE) => cfgFile = first.cfgFile)
    /\ [][ Len(calls') > Len(calls) =>
             /\ Len(calls') = Len(calls) + 1
             /\ pc \in Blocking \ { "receive" }
             /\ pc' \in (Blocking \cup { "startSpinners", "finish", "exited" }) \ { pc } ]_vars

C16_Witness ==
    /\ SecondRunEnded
    /\ spinErr
    /\ Len(calls) = 8
    /\ first.calls = calls
    /\ outcome = "Complete"

====
